---- MODULE Spec2Model ----
(***************************************************************************)
(* Model of the Tags component of eventsV2 (tags.tsx): the fetch rounds    *)
(* started by componentDidMount / componentDidUpdate, the continuations of *)
(* the facet and total fetches merging into this.state, and renderTag.     *)
(*                                                                         *)
(* React's part is modelled as React 16 performs it for a class component: *)
(*   - a parent update sets this.props, calls render() and then            *)
(*     componentDidUpdate(prevProps), all in one synchronous commit;       *)
(*   - this.setState called inside a lifecycle method (fetchData is only   *)
(*     called from componentDidMount and componentDidUpdate) is enqueued   *)
(*     and applied when the commit ends, followed by a re-render;          *)
(*   - this.setState(updater) called from a promise continuation is        *)
(*     applied at once to the latest state, followed by a re-render;       *)
(*   - promise continuations run only between commits (run to completion). *)
(***************************************************************************)
EXTENDS Integers, Sequences, FiniteSets, TLC

\* ---------------------------------------------------------------- bounds
MaxRounds == 3      \* number of Symbols fetchData may mint in one behaviour
MaxStale == 1       \* fetches still in flight when the parent passes new props
MaxTags == 2        \* length of eventView.tags where componentDidUpdate is compared

\* ---------------------------------------------------------------- inputs
Facets == {"browser", "os"}

Queries == {"q1", "q2"}
Sorts == {"s1", "s2"}

\* Props: eventView.tags (a string[]: facets in some order, a facet may occur
\* more than once), and the fields of eventView/location that
\* getEventsAPIPayload(location) reads: the filter query and the sort order.
Ctx(tags, query, sort) == [tags |-> tags, query |-> query, sort |-> sort]

\* every eventView.tags of up to MaxTags entries, with every query and sort
TagLists == UNION {[1..n -> Facets] : n \in 1..MaxTags}
AllContexts == [tags : TagLists, query : Queries, sort : Sorts]

\* the props the parent passes in the behaviours explored: the two contexts of
\* the scenario of two facets then one, the same facets in another order, a
\* facet listed twice, another sort order and another filter query
Contexts ==
    {Ctx(<<"browser", "os">>, "q1", "s1"),
     Ctx(<<"os", "browser">>, "q1", "s1"),
     Ctx(<<"browser">>, "q1", "s1"),
     Ctx(<<"browser", "browser">>, "q1", "s1"),
     Ctx(<<"browser">>, "q1", "s2"),
     Ctx(<<"browser">>, "q2", "s1")}

\* state.tagsFetchID: undefined
Undefined == 0
\* state.totalValues: null; a number n is held as <<n>>
Null == <<>>
\* state.tags: {}
EmptyObj == [k \in {} |-> 0]

\* segment.url before renderTag assigns it
NoUrl == <<>>

\* a Tag as fetchTagDistribution resolves it: topValues with one segment
TagVal(v) == [topValues |-> <<[value |-> v, url |-> NoUrl]>>]
TagVals == {TagVal(v) : v \in {"chrome", "firefox"}}
\* what fetchTotalCount resolves with
Totals == {0, 15}

\* no call of Sentry.captureException
NoFault == <<>>

VARIABLES
    props,        \* this.props
    prevProps,    \* argument of the componentDidUpdate that is due
    st,           \* this.state: tags, totalValues, tagsFetchID
    pc,           \* "didMount", "didUpdate", "flush" or "idle"
    updateQueue,  \* state updates enqueued by setState during the commit
    nextSym,      \* number of Symbols minted so far
    pending,      \* fetches in flight
    captured,     \* the fetch whose rejection the latest step gave to
                  \* Sentry.captureException, as <<fetch>>; NoFault if it gave none
    roundProps,   \* history: this.props read by the fetchData of st.tagsFetchID
    failed,       \* history: what a rejected fetch of st.tagsFetchID was for
    settled,      \* history: the fetch the latest step settled, as <<fetch>>
    origin,       \* history: the round of the fetch that wrote each entry
    minted,       \* history: the Symbols fetchData has minted
    outcome       \* history: how the fetch of the latest step settled:
                  \* "resolved", "rejected", or "none" if it settled none

vars == <<props, prevProps, st, pc, updateQueue, nextSym, pending, captured,
          roundProps, failed, settled, origin, minted, outcome>>

\* ------------------------------------------------------ pure helpers
SetOf(s) == {s[i] : i \in DOMAIN s}

\* lodash isEqual: deep equality; on Sets, equal members in any order
isEqual(a, b) == a = b

getEventsAPIPayload(p) == [query |-> p.query, sort |-> p.sort]

\* the projection of the payload the tag and total endpoints take
pickTagParams(payload) == [query |-> payload.query]

getEventTagSearchUrl(tag, value, p) == <<tag, value, p.query, p.sort>>

\* mutant: the payloads are compared whole, without pickTagParams
shouldRefetchData_WholePayload(this, prev) ==
    ~isEqual(getEventsAPIPayload(this), getEventsAPIPayload(prev))

\* mutant: the facet sets are compared by their sizes
tagsChanged_BySize(this, prev) ==
    Cardinality(SetOf(this.tags)) # Cardinality(SetOf(prev.tags))

shouldRefetchData(this, prev) ==
    LET thisAPIPayload == pickTagParams(getEventsAPIPayload(this))
        otherAPIPayload == pickTagParams(getEventsAPIPayload(prev))
    IN  ~isEqual(thisAPIPayload, otherAPIPayload)

tagsChanged(this, prev) == ~isEqual(SetOf(this.tags), SetOf(prev.tags))

\* ------------------------------------------------------ renderTag
\* mutant: the total is tested as !totalValues, so a total of 0 counts as absent
isLoading_FalsyTotal(s, tag) ==
    tag \notin DOMAIN s.tags \/ s.totalValues \in {Null, <<0>>}

isLoading(s, tag) == tag \notin DOMAIN s.tags \/ s.totalValues = Null

segmentsOf(s, tag) == IF ~isLoading(s, tag) THEN s.tags[tag].topValues ELSE <<>>

\* segments.forEach(segment => segment.url = ...): the segments are the
\* objects held in state.tags[tag].topValues, so the assignment lands there
withUrls(segments, tag, p) ==
    [i \in DOMAIN segments |->
        [segments[i] EXCEPT !.url = getEventTagSearchUrl(tag, segments[i].value, p)]]

\* the props renderTag hands to TagDistributionMeter
renderTag(s, p, tag) ==
    [title |-> tag,
     segments |-> withUrls(segmentsOf(s, tag), tag, p),
     totalValues |-> s.totalValues,
     isLoading |-> isLoading(s, tag)]

\* this.state after render(): every renderTag of props.eventView.tags has run
afterRender(s, p) ==
    [s EXCEPT !.tags =
        [k \in DOMAIN s.tags |->
            IF k \in SetOf(p.tags) /\ ~isLoading(s, k)
            THEN [s.tags[k] EXCEPT !.topValues = withUrls(s.tags[k].topValues, k, p)]
            ELSE s.tags[k]]]

render(s, p) == [i \in DOMAIN p.tags |-> renderTag(s, p, p.tags[i])]

\* ------------------------------------------------------ fetchData
\* mutant: the reset forgets totalValues
resetState_KeepsTotal(tagsFetchID) ==
    [tags |-> EmptyObj, totalValues |-> st.totalValues, tagsFetchID |-> tagsFetchID]

\* mutant: the reset installs the new Symbol and keeps the merged facets
resetState_KeepsTags(tagsFetchID) ==
    [tags |-> st.tags, totalValues |-> Null, tagsFetchID |-> tagsFetchID]

resetState(tagsFetchID) ==
    [tags |-> EmptyObj, totalValues |-> Null, tagsFetchID |-> tagsFetchID]

\* mutant: the facets are fetched one after the other, each awaited before
\* the next is requested, so only the first is in flight when fetchData returns
tagFetches_Awaited(p, tagsFetchID) ==
    {[kind |-> "tag", idx |-> i, tag |-> p.tags[i], id |-> tagsFetchID,
      payload |-> pickTagParams(getEventsAPIPayload(p))] : i \in {1}}

tagFetches(p, tagsFetchID) ==
    {[kind |-> "tag", idx |-> i, tag |-> p.tags[i], id |-> tagsFetchID,
      payload |-> pickTagParams(getEventsAPIPayload(p))] : i \in DOMAIN p.tags}

totalFetch(p, tagsFetchID) ==
    [kind |-> "total", idx |-> 0, tag |-> "", id |-> tagsFetchID,
     payload |-> pickTagParams(getEventsAPIPayload(p))]

\* mutant: Symbol.for('tagsFetchID'), the one Symbol the global registry keeps
\* under that key
Symbol_Registry(n) == 1

\* Symbol('tagsFetchID') when n Symbols were minted before: a value no earlier
\* call returned
Symbol(n) == n + 1

\* the synchronous part of fetchData: mint the Symbol, call setState, call
\* fetchTagDistribution for every tag and fetchTotalCount, up to the awaits
fetchData ==
    LET tagsFetchID == Symbol(nextSym) IN
    /\ nextSym' = nextSym + 1
    /\ minted' = minted \cup {tagsFetchID}
    /\ outcome' = "none"
    /\ updateQueue' = Append(updateQueue, resetState(tagsFetchID))
    /\ pending' = pending \cup tagFetches(props, tagsFetchID)
                          \cup {totalFetch(props, tagsFetchID)}
    /\ captured' = NoFault
    /\ settled' = <<>>
    /\ UNCHANGED <<st, roundProps, failed, origin>>

\* setState(partialState) as React applies it: Object.assign on the state
assign(state, partialState) ==
    [k \in DOMAIN state |-> IF k \in DOMAIN partialState THEN partialState[k] ELSE state[k]]

RECURSIVE applyQueue(_, _)
applyQueue(state, queue) ==
    IF queue = <<>> THEN state
    ELSE applyQueue(assign(state, Head(queue)), Tail(queue))

\* mutant: the facet continuation writes {[tag]: val} without spreading state.tags
tagUpdater_NoSpread(state, tagsFetchID, tag, val) ==
    IF state.tagsFetchID # tagsFetchID
    THEN state
    ELSE [state EXCEPT !.tags = [k \in {tag} |-> val]]

\* mutant: the facet continuation merges without comparing the Symbols
tagUpdater_NoTokenCheck(state, tagsFetchID, tag, val) ==
    [state EXCEPT !.tags =
        [k \in DOMAIN state.tags \cup {tag} |->
            IF k = tag THEN val ELSE state.tags[k]]]

\* mutant: the facet continuation asks whether its facet is on display instead
\* of comparing the Symbols
tagUpdater_ByFacet(state, tagsFetchID, tag, val) ==
    IF tag \notin SetOf(props.tags)
    THEN state
    ELSE [state EXCEPT !.tags =
            [k \in DOMAIN state.tags \cup {tag} |->
                IF k = tag THEN val ELSE state.tags[k]]]

\* the updater of the facet continuation
tagUpdater(state, tagsFetchID, tag, val) ==
    IF state.tagsFetchID # tagsFetchID
    THEN state
    ELSE [state EXCEPT !.tags =
            [k \in DOMAIN state.tags \cup {tag} |->
                IF k = tag THEN val ELSE state.tags[k]]]

\* mutant: the total continuation merges without comparing the Symbols
totalUpdater_NoTokenCheck(state, tagsFetchID, totalValues) ==
    [state EXCEPT !.totalValues = <<totalValues>>]

\* the updater of the total continuation
totalUpdater(state, tagsFetchID, totalValues) ==
    IF state.tagsFetchID # tagsFetchID
    THEN state
    ELSE [state EXCEPT !.totalValues = <<totalValues>>]

\* history: which round wrote what, following what the updater did
originAfter(s, s2, f) ==
    [tags |-> [k \in DOMAIN s2.tags |->
                  IF f.kind = "tag" /\ k = f.tag /\ s2 # s
                  THEN f.id
                  ELSE IF k \in DOMAIN origin.tags THEN origin.tags[k] ELSE Undefined],
     total |-> IF f.kind = "total" /\ s2 # s THEN f.id ELSE origin.total]

\* mutant: the continuation throws when its round was superseded, and the
\* catch reports what was thrown
tryFault_ThrowsWhenStale(f) == IF f.id # st.tagsFetchID THEN <<f>> ELSE NoFault

\* what the try block of a continuation gives to Sentry.captureException when
\* the await returned a value: the updater returns on both branches, nothing
\* is thrown and the catch is not entered
tryFault(f) == NoFault

\* mutant: the catch reports only the failures of the round on display
catchFault_CurrentOnly(f) == IF f.id = st.tagsFetchID THEN <<f>> ELSE NoFault

\* what the catch gives to Sentry.captureException when the await threw
catchFault(f) == <<f>>

\* ------------------------------------------------------ actions
Init ==
    /\ props \in Contexts
    /\ prevProps = props
    /\ st = [tags |-> EmptyObj, totalValues |-> Null, tagsFetchID |-> Undefined]
    /\ pc = "didMount"
    /\ updateQueue = <<>>
    /\ nextSym = 0
    /\ pending = {}
    /\ captured = NoFault
    /\ settled = <<>>
    /\ roundProps = props
    /\ failed = {}
    /\ origin = [tags |-> EmptyObj, total |-> Undefined]
    /\ minted = {}
    /\ outcome = "none"

\* mutant: the mount fetches only if the comparison of componentDidUpdate
\* finds a difference
componentDidMount_WhenChanged ==
    /\ pc = "didMount"
    /\ IF tagsChanged(props, prevProps) \/ shouldRefetchData(props, prevProps)
       THEN /\ fetchData
            /\ pc' = "flush"
       ELSE /\ pc' = "idle"
            /\ UNCHANGED <<st, updateQueue, nextSym, pending, captured, roundProps,
                           failed, settled, origin, minted, outcome>>
    /\ UNCHANGED <<props, prevProps>>

componentDidMount ==
    /\ pc = "didMount"
    /\ fetchData
    /\ pc' = "flush"
    /\ UNCHANGED <<props, prevProps>>

\* the parent passes new props: React sets this.props, calls render() and
\* has componentDidUpdate(prevProps) due in the same commit
ReceiveProps ==
    /\ pc = "idle"
    /\ nextSym < MaxRounds
    /\ Cardinality(pending) <= MaxStale
    /\ \E next \in Contexts :
        /\ props' = next
        /\ prevProps' = props
        /\ st' = afterRender(st, next)
    /\ pc' = "didUpdate"
    /\ captured' = NoFault
    /\ settled' = <<>>
    /\ outcome' = "none"
    /\ UNCHANGED <<updateQueue, nextSym, pending, roundProps, failed, origin, minted>>

\* mutant: componentDidUpdate calls fetchData whatever the comparison says
componentDidUpdate_Always ==
    /\ pc = "didUpdate"
    /\ fetchData
    /\ pc' = "flush"
    /\ prevProps' = props
    /\ UNCHANGED props

componentDidUpdate ==
    /\ pc = "didUpdate"
    /\ IF tagsChanged(props, prevProps) \/ shouldRefetchData(props, prevProps)
       THEN /\ fetchData
            /\ pc' = "flush"
       ELSE /\ pc' = "idle"
            /\ captured' = NoFault
            /\ settled' = <<>>
            /\ outcome' = "none"
            /\ UNCHANGED <<st, updateQueue, nextSym, pending, roundProps, failed,
                           origin, minted>>
    /\ prevProps' = props
    /\ UNCHANGED props

\* the commit ends: React applies the enqueued setState and renders again
\* (the componentDidUpdate of that render gets prevProps = this.props)
Flush ==
    /\ pc = "flush"
    /\ st' = afterRender(applyQueue(st, updateQueue), props)
    /\ updateQueue' = <<>>
    /\ origin' = [tags |-> EmptyObj, total |-> Undefined]
    /\ roundProps' = props
    /\ failed' = {}
    /\ pc' = "idle"
    /\ captured' = NoFault
    /\ settled' = <<>>
    /\ outcome' = "none"
    /\ UNCHANGED <<props, prevProps, nextSym, pending, minted>>

\* a facet fetch resolves with val: its continuation calls setState(updater)
TagResolved(f, val) ==
    /\ pc = "idle"
    /\ f \in pending /\ f.kind = "tag"
    /\ LET s2 == tagUpdater(st, f.id, f.tag, val) IN
        /\ st' = afterRender(s2, props)
        /\ origin' = originAfter(st, s2, f)
    /\ pending' = pending \ {f}
    /\ captured' = tryFault(f)
    /\ settled' = <<f>>
    /\ outcome' = "resolved"
    /\ UNCHANGED <<props, prevProps, pc, updateQueue, nextSym, roundProps, failed,
                   minted>>

\* the total fetch resolves with totalValues
TotalResolved(f, totalValues) ==
    /\ pc = "idle"
    /\ f \in pending /\ f.kind = "total"
    /\ LET s2 == totalUpdater(st, f.id, totalValues) IN
        /\ st' = afterRender(s2, props)
        /\ origin' = originAfter(st, s2, f)
    /\ pending' = pending \ {f}
    /\ captured' = tryFault(f)
    /\ settled' = <<f>>
    /\ outcome' = "resolved"
    /\ UNCHANGED <<props, prevProps, pc, updateQueue, nextSym, roundProps, failed,
                   minted>>

\* a facet or total fetch rejects: catch (err) { Sentry.captureException(err) }
Rejected(f) ==
    /\ pc = "idle"
    /\ f \in pending
    /\ captured' = catchFault(f)
    /\ settled' = <<f>>
    /\ outcome' = "rejected"
    /\ failed' = IF f.id = st.tagsFetchID
                 THEN failed \cup {IF f.kind = "tag" THEN f.tag ELSE "total"}
                 ELSE failed
    /\ pending' = pending \ {f}
    /\ UNCHANGED <<props, prevProps, st, pc, updateQueue, nextSym, roundProps, origin,
                   minted>>

Resolve ==
    \E f \in pending :
        \/ \E val \in TagVals : TagResolved(f, val)
        \/ \E totalValues \in Totals : TotalResolved(f, totalValues)

Reject == \E f \in pending : Rejected(f)

Next ==
    \/ componentDidMount
    \/ ReceiveProps
    \/ componentDidUpdate
    \/ Flush
    \/ Resolve
    \/ Reject

Spec == Init /\ [][Next]_vars

\* React runs the lifecycle methods and ends the commit it has begun, and the
\* transport settles every request it was given
FairSpec ==
    /\ Spec
    /\ WF_vars(componentDidMount)
    /\ WF_vars(componentDidUpdate)
    /\ WF_vars(Flush)
    /\ WF_vars(Resolve \/ Reject)

\* componentDidUpdate on every pair of props: the component was mounted with
\* prev, the reset of its first round was applied, and the parent has passed
\* next while every fetch of that round is in flight
CmpInit ==
    \E prev \in AllContexts, next \in AllContexts :
        /\ props = next
        /\ prevProps = prev
        /\ st = [tags |-> EmptyObj, totalValues |-> Null, tagsFetchID |-> 1]
        /\ pc = "didUpdate"
        /\ updateQueue = <<>>
        /\ nextSym = 1
        /\ pending = tagFetches(prev, 1) \cup {totalFetch(prev, 1)}
        /\ captured = NoFault
        /\ settled = <<>>
        /\ roundProps = prev
        /\ failed = {}
        /\ origin = [tags |-> EmptyObj, total |-> Undefined]
        /\ minted = {1}
        /\ outcome = "none"

CmpNext == componentDidUpdate \/ Flush

CmpSpec == CmpInit /\ [][CmpNext]_vars

\* ------------------------------------------------------ shorthands
\* the latest step applied the continuation of a fetch that resolved
Succeeded == settled # <<>> /\ captured = NoFault
\* ... and that fetch carried a Symbol that is not state.tagsFetchID
StaleSucceeded == Succeeded /\ settled[1].id # st.tagsFetchID
StalePending == {f \in pending : f.id # st.tagsFetchID}

\* ------------------------------------------------------ C1
\* C1: a facet or total fetch that resolves carrying a Symbol other than
\* state.tagsFetchID leaves this.state as it was: the same tags, the same
\* totalValues and the same tagsFetchID.
C1_StaleResolutionKeepsState ==
    [][\A f \in pending :
        (settled' = <<f>> /\ captured' = NoFault /\ f.id # st.tagsFetchID)
            => /\ st'.tags = st.tags
               /\ st'.totalValues = st.totalValues
               /\ st'.tagsFetchID = st.tagsFetchID]_vars

\* a stale facet result has just been discarded while the current round has
\* already merged a facet and the total
C1_Witness ==
    /\ StaleSucceeded
    /\ settled[1].kind = "tag"
    /\ DOMAIN st.tags # {}
    /\ st.totalValues # Null

\* ------------------------------------------------------ C2
\* C2: in every reachable state each entry of state.tags, and totalValues when
\* it is not null, was written by the continuation of a fetch dispatched in
\* the round whose Symbol is state.tagsFetchID.
C2_EntriesFromCurrentRound ==
    /\ \A k \in DOMAIN st.tags :
          /\ k \in DOMAIN origin.tags
          /\ origin.tags[k] = st.tagsFetchID
          /\ origin.tags[k] # Undefined
    /\ st.totalValues # Null =>
          origin.total = st.tagsFetchID /\ origin.total # Undefined

\* a later round has merged a facet and its total, and the total of an
\* earlier round has just arrived
C2_Witness ==
    /\ st.tagsFetchID >= 2
    /\ DOMAIN st.tags # {}
    /\ st.totalValues # Null
    /\ StaleSucceeded
    /\ settled[1].kind = "total"

\* ------------------------------------------------------ C5
\* C5: in every reachable state the keys of state.tags are facets of the props
\* the fetchData of the current round read: a facet requested only by an
\* earlier round is never present, whenever its late result arrives.
C5_KeysWithinRoundFacets ==
    DOMAIN st.tags \subseteq SetOf(roundProps.tags)

\* round 1 asked for browser and os, the current round only for browser; the
\* current round has merged browser and the late os result has just arrived
C5_Witness ==
    /\ StaleSucceeded
    /\ settled[1].tag = "os"
    /\ "os" \notin SetOf(roundProps.tags)
    /\ "browser" \in DOMAIN st.tags


\* ------------------------------------------------------ C3
\* the fetch of a round started for props a answers the query of props b
SameQuery(a, b) ==
    /\ SetOf(a.tags) = SetOf(b.tags)
    /\ pickTagParams(getEventsAPIPayload(a)) = pickTagParams(getEventsAPIPayload(b))

\* C3: whenever render() evaluates renderTag with this.props = C (it does so in
\* the state each step leaves), every facet reported as not loading and the
\* totalValues handed on come from a round started for C, also in the render
\* that precedes componentDidUpdate.
C3_NoSupersededResultRendered ==
    \A i \in DOMAIN props.tags :
        LET meter == renderTag(st, props, props.tags[i]) IN
        (~meter.isLoading \/ meter.totalValues # Null) => SameQuery(roundProps, props)

CurrentPending == {f \in pending : f.id = st.tagsFetchID}
ResultsOf(f) == IF f.kind = "tag" THEN TagVals ELSE Totals

\* this.state after the continuation of f has run with result v
Merged(s, f, v) ==
    afterRender(IF f.kind = "tag" THEN tagUpdater(s, f.id, f.tag, v)
                ELSE totalUpdater(s, f.id, v), props)

\* C6: within a round the continuations commute: for any two fetches of the
\* current round still in flight and any results, either arrival order leaves
\* the same this.state, so every arrival order ends in the same state.
C6_MergesCommute ==
    pc = "idle" =>
        \A f, g \in CurrentPending :
            f # g =>
                \A v \in ResultsOf(f), w \in ResultsOf(g) :
                    Merged(Merged(st, f, v), g, w) = Merged(Merged(st, g, w), f, v)

\* ------------------------------------------------------ C7
\* every facet of the props has its entry, written by a fetch of the current
\* round, the total is resolved and renderTag reports no facet as loading
Complete ==
    /\ pc = "idle"
    /\ st.tagsFetchID = nextSym
    /\ \A i \in DOMAIN props.tags :
          /\ props.tags[i] \in DOMAIN st.tags
          /\ origin.tags[props.tags[i]] = st.tagsFetchID
          /\ ~renderTag(st, props, props.tags[i]).isLoading
    /\ st.totalValues # Null
    /\ origin.total = st.tagsFetchID

\* C7: if from some point on the parent passes no new props and no fetch of
\* the current round rejects, then eventually, and from then on, this.state
\* has an entry for every facet of the round and a resolved total, and
\* renderTag reports no facet as loading.
C7_EventuallyComplete ==
    <>[](pc # "didUpdate" /\ failed = {}) => <>[]Complete

\* two facets and the total of a round have been merged
C7_Witness ==
    /\ Complete
    /\ DOMAIN st.tags = {"browser", "os"}
    /\ pending = {}

\* ------------------------------------------------------ C8
\* C8: renderTag reports a facet as loading exactly when state.tags has no
\* entry for it or totalValues is null (a total of 0 is a total), and then it
\* hands on no segments; so while totalValues is null every facet is reported
\* as loading, whatever entries are present.
C8_LoadingIffAbsent ==
    \A i \in DOMAIN props.tags :
        LET tag == props.tags[i]
            meter == renderTag(st, props, tag)
        IN  /\ meter.isLoading <=> (tag \notin DOMAIN st.tags \/ st.totalValues = <<>>)
            /\ meter.isLoading => meter.segments = <<>>
            /\ ~meter.isLoading => meter.segments # <<>>
            /\ st.totalValues = <<>> => meter.isLoading

\* the total fetch of the round has rejected and every facet has its entry
C8_Witness ==
    /\ "total" \in failed
    /\ \A i \in DOMAIN props.tags : props.tags[i] \in DOMAIN st.tags
    /\ \A i \in DOMAIN props.tags : renderTag(st, props, props.tags[i]).isLoading
    /\ CurrentPending = {}

\* ------------------------------------------------------ C9
AbsentEntry(s, t) == IF t = "total" THEN s.totalValues = Null ELSE t \notin DOMAIN s.tags

\* C9: a rejection is given to Sentry.captureException, leaves this.state and
\* the lifecycle alone and dispatches nothing; and the entry of a facet (or the
\* total) whose fetch of the current round rejected stays absent in every
\* later state until the reset of a new round is applied.
C9_RejectedStaysAbsent ==
    [][/\ \A f \in pending :
            (settled' = <<f>> /\ captured' # NoFault) =>
                /\ captured' = <<f>>
                /\ st' = st
                /\ pending' = pending \ {f}
                /\ pc' = pc /\ props' = props /\ nextSym' = nextSym
       /\ \A t \in failed :
            (AbsentEntry(st, t) /\ st'.tagsFetchID = st.tagsFetchID)
                => AbsentEntry(st', t)]_vars

\* ------------------------------------------------------ C10
\* C10: when the facets of the previous and the next props are equal as sets
\* and the projections pickTagParams of their payloads are equal,
\* componentDidUpdate starts no round: no Symbol is minted, nothing is
\* enqueued or dispatched and this.state is untouched.
C10_NoRefetchOnEqualQuery ==
    [][(/\ pc = "didUpdate"
        /\ SetOf(props.tags) = SetOf(prevProps.tags)
        /\ pickTagParams(getEventsAPIPayload(props))
             = pickTagParams(getEventsAPIPayload(prevProps)))
       => /\ pc' = "idle"
          /\ nextSym' = nextSym
          /\ updateQueue' = updateQueue
          /\ pending' = pending
          /\ st' = st]_vars

\* componentDidUpdate has left round 1 running although the props now list the
\* same facets differently (another order, or a facet twice) and carry
\* another sort order
C10_Witness ==
    /\ pc = "idle"
    /\ nextSym = 1
    /\ props.sort # roundProps.sort
    /\ props.tags # roundProps.tags
    /\ Cardinality(pending) = Len(roundProps.tags) + 1

\* ------------------------------------------------------ C11
\* C11: for every pair of previous and next props whose facet sets differ,
\* componentDidUpdate calls fetchData and a new round starts (a Symbol no
\* earlier round had is minted, the reset is enqueued, fetches carrying it are
\* dispatched), whatever the query projections of the two props are.
C11_RefetchOnFacetChange ==
    [][(pc = "didUpdate" /\ SetOf(props.tags) # SetOf(prevProps.tags)) =>
          /\ pc' = "flush"
          /\ nextSym' = nextSym + 1
          /\ Len(updateQueue') = Len(updateQueue) + 1
          /\ updateQueue'[Len(updateQueue')].tagsFetchID \notin minted
          /\ \A i \in DOMAIN props.tags :
                \E f \in pending' \ pending :
                    /\ f.kind = "tag" /\ f.idx = i /\ f.tag = props.tags[i]
                    /\ f.id = updateQueue'[Len(updateQueue')].tagsFetchID]_vars

\* a round was started for props that differ from the props of the round
\* before in the facet set only
C11_Witness ==
    /\ pc = "flush"
    /\ nextSym = 2
    /\ SetOf(props.tags) # SetOf(roundProps.tags)
    /\ getEventsAPIPayload(props) = getEventsAPIPayload(roundProps)

\* ------------------------------------------------------ C12
\* C12: rendering leaves this.state as it was: on the step in which the parent
\* passes props and React renders (render() calls renderTag for every facet,
\* nothing else touches the state), the facet map with every stored result and
\* each of its value entries, the total and the Symbol are the same afterwards.
C12_RenderLeavesState ==
    [][(pc = "idle" /\ pc' = "didUpdate") => st' = st]_vars

\* ------------------------------------------------------ C13
\* C13: every Symbol fetchData mints differs from every Symbol minted before
\* (as many distinct Symbols as calls), no Symbol is the undefined of the
\* initial state, and once a reset has been applied the Symbol in the state is
\* one of the minted ones, as is the Symbol every fetch in flight carries.
C13_TokensDistinct ==
    /\ Cardinality(minted) = nextSym
    /\ Undefined \notin minted
    /\ st.tagsFetchID # Undefined => st.tagsFetchID \in minted
    /\ (nextSym > 0 /\ pc = "idle") => st.tagsFetchID \in minted
    /\ \A f \in pending : f.id \in minted

\* three rounds were started, and a fetch of an earlier round is in flight
C13_Witness ==
    /\ Cardinality(minted) = 3
    /\ st.tagsFetchID = 3
    /\ \E f \in pending : f.id # st.tagsFetchID

\* ------------------------------------------------------ C14
\* C14: a result merged into the state stays there with the same value until
\* a new round starts: in every step that leaves the Symbol of the state as it
\* is (a resolution or rejection of any fetch, of this or of an earlier round,
\* or new props that cause no refetch), every facet present stays present with
\* the same stored result, and a total that is present stays the same.
C14_MergedResultStays ==
    [][st'.tagsFetchID = st.tagsFetchID =>
          /\ \A k \in DOMAIN st.tags :
                k \in DOMAIN st'.tags /\ st'.tags[k] = st.tags[k]
          /\ st.totalValues # Null => st'.totalValues = st.totalValues]_vars

C16_OnlyFailuresReported ==
    /\ outcome = "resolved" => captured = NoFault
    /\ captured # NoFault => (outcome = "rejected" /\ captured = settled)

\* a fetch of a superseded round has resolved, while the state holds results
C16_Witness ==
    /\ outcome = "resolved"
    /\ settled[1].id # st.tagsFetchID
    /\ captured = NoFault
    /\ DOMAIN st.tags # {}

\* ------------------------------------------------------ C17
\* C17: before componentDidMount has run, the state has an empty facet map, a
\* null total and no Symbol, render reports every facet as loading and no
\* fetch is in flight; componentDidMount starts the first round whatever the
\* props are, without the comparison of componentDidUpdate.
C17_FirstRoundAtMount ==
    /\ [](pc = "didMount" =>
            /\ st = [tags |-> EmptyObj, totalValues |-> Null, tagsFetchID |-> Undefined]
            /\ \A i \in DOMAIN props.tags : render(st, props)[i].isLoading
            /\ pending = {}
            /\ minted = {})
    /\ [][pc = "didMount" =>
            /\ pc' = "flush"
            /\ Cardinality(minted') = 1
            /\ updateQueue' = <<[tags |-> EmptyObj, totalValues |-> Null,
                                 tagsFetchID |-> CHOOSE id \in minted' : TRUE]>>
            /\ Cardinality(pending') = Len(props.tags) + 1]_vars

\* the first round was started although the props equal the previous props
C17_Witness ==
    /\ pc = "flush"
    /\ nextSym = 1
    /\ prevProps = props
    /\ st.tagsFetchID = Undefined
    /\ Cardinality(pending) = Len(props.tags) + 1

\* ------------------------------------------------------ C18
\* C18: when componentDidUpdate finds the facet sets equal and the query
\* projections equal, it leaves the Symbol, the facet map and the total as they
\* are and dispatches nothing; a fetch of the round on display that resolves
\* after such an update (the props are no longer the props its round was
\* started with) is merged into the state.
C18_NoRefetchKeepsRound ==
    [][/\ (pc = "didUpdate" /\ SameQuery(props, prevProps)) =>
            /\ pc' = "idle"
            /\ st' = st
            /\ pending' = pending
            /\ updateQueue' = updateQueue
            /\ minted' = minted
       /\ \A f \in pending :
            (/\ settled' = <<f>>
             /\ outcome' = "resolved"
             /\ f.id = st.tagsFetchID
             /\ props # roundProps) =>
                IF f.kind = "tag"
                THEN f.tag \in DOMAIN st'.tags /\ origin'.tags[f.tag] = f.id
                ELSE st'.totalValues # Null /\ origin'.total = f.id]_vars

\* after new props that caused no refetch, a facet fetch of the only round
\* resolved and its result is in the state
C18_Witness ==
    /\ nextSym = 1
    /\ st.tagsFetchID = 1
    /\ props # roundProps
    /\ outcome = "resolved"
    /\ settled[1].kind = "tag"
    /\ settled[1].tag \in DOMAIN st.tags
    /\ origin.tags[settled[1].tag] = 1

\* ------------------------------------------------------ C19
\* C19: staleness goes by round, not by context: a fetch of an earlier round
\* that resolves while the round on display asks for the same facet with the
\* same query payload (the props went away and came back) leaves the state as
\* it is, and what the state holds was written by the round on display.
C19_StalePerRound ==
    [][\A f \in pending :
          (/\ settled' = <<f>>
           /\ outcome' = "resolved"
           /\ f.id # st.tagsFetchID
           /\ f.payload = pickTagParams(getEventsAPIPayload(roundProps))
           /\ f.kind = "tag" => f.tag \in SetOf(roundProps.tags)) =>
              /\ st' = st
              /\ origin' = origin
              /\ \A k \in DOMAIN st'.tags : origin'.tags[k] = st'.tagsFetchID
              /\ st'.totalValues # Null => origin'.total = st'.tagsFetchID]_vars

\* the third round has the props of the first (the only props with "os" as
\* second facet), its "os" result is merged, and the "os" fetch of the first
\* round resolves
C19_Witness ==
    /\ st.tagsFetchID = 3
    /\ roundProps = Ctx(<<"browser", "os">>, "q1", "s1")
    /\ outcome = "resolved"
    /\ settled[1].id = 1
    /\ settled[1].kind = "tag" /\ settled[1].idx = 2
    /\ "os" \in DOMAIN st.tags
    /\ origin.tags["os"] = 3

\* ------------------------------------------------------ C20
\* C20: a fetch of a superseded round that rejects is given to
\* Sentry.captureException, once, and the state stays as it is.
C20_StaleFailureReported ==
    [][\A f \in pending :
          (settled' = <<f>> /\ outcome' = "rejected" /\ f.id # st.tagsFetchID) =>
              /\ captured' = <<f>>
              /\ st' = st
              /\ origin' = origin]_vars

\* a fetch of a superseded round has rejected, while the state holds results
C20_Witness ==
    /\ outcome = "rejected"
    /\ settled[1].id # st.tagsFetchID
    /\ captured = settled
    /\ DOMAIN st.tags # {}

====
